---- MODULE Spec2Model ----
(***************************************************************************)
(* TextCompressor of QubitText-Compressor.py: the table built by __init__ *)
(* from a list of raw entries, compress (text -> packed bytes) and        *)
(* decompress (packed bytes -> text).                                      *)
(*                                                                         *)
(* A character is its code point (a natural number); a Python str is a     *)
(* sequence of code points; a bit string ('0'/'1' characters) is a         *)
(* sequence of 0/1; a bytearray is a sequence of 0..255.  A Python dict is *)
(* a sequence of [k, v] records in insertion order.                        *)
(***************************************************************************)
EXTENDS Integers, Sequences, FiniteSets, TLC

\* ---------------------------------------------------------------- bounds
\* longest raw entry list drawn from RawPool
MaxEntries == 3
\* largest table of pairwise distinct one-character entries
MaxBig == 33
\* longest text drawn freely from TextChars
MaxLen == 3
\* longest patterned text
MaxLong == 7
\* most zero bytes appended to a compressed buffer before decoding it
MaxPad == 2
\* longest free byte buffer handed to decompress
MaxBytes == 2

\* ------------------------------------------------------ program constants
\* "if self.bits_per_char > 5"
MaxBits == 5
\* bits per byte: range(0, len(bitstream), 8), format(byte, '08b')
ByteBits == 8
\* ' '
SpaceChar == 32
\* the literal 'space'
SpaceToken == <<115, 112, 97, 99, 101>>
\* None, the value code_to_char gives the EOS code: equal to no str
None == <<-1>>

\* ----------------------------------------------------------------- input
\* __init__: the entries split out of the table file
VARIABLE chars

\* -------------------------------------------------------- str primitives
Min(a, b) == IF a < b THEN a ELSE b

\* s[lo:hi] for 0 <= lo <= hi (Python slices clamp at the end of s)
Slice(s, lo, hi) == SubSeq(s, lo + 1, Min(hi, Len(s)))

\* '0' * n
Zeros(n) == [j \in 1..n |-> 0]

\* the characters str.strip() removes (ASCII whitespace)
Whitespace == {9, 10, 11, 12, 13, 28, 29, 30, 31, 32}

RECURSIVE LStrip(_)
LStrip(s) == IF s = <<>> \/ Head(s) \notin Whitespace THEN s ELSE LStrip(Tail(s))

RECURSIVE RStrip(_)
RStrip(s) ==
    IF s = <<>> \/ s[Len(s)] \notin Whitespace THEN s
    ELSE RStrip(SubSeq(s, 1, Len(s) - 1))

\* str.strip()
Strip(s) == RStrip(LStrip(s))

\* str.lower() of one character: 'A'..'Z' -> 'a'..'z', the rest unchanged
LowerChar(c) == IF c >= 65 /\ c <= 90 THEN c + 32 ELSE c

\* str.lower()
Lower(s) == [j \in 1..Len(s) |-> LowerChar(s[j])]

\* the binary digits of n >= 0, most significant first
RECURSIVE Digits(_)
Digits(n) == IF n < 2 THEN <<n>> ELSE Append(Digits(n \div 2), n % 2)

\* variant: format(n, 'b'), the digits without the zero fill
FormatBinNoFill(n, width) == Digits(n)

\* format(n, '0<width>b'): the digits, zero-filled on the left to width
FormatBin(n, width) ==
    LET d == Digits(n)
    IN  IF Len(d) >= width THEN d ELSE Zeros(width - Len(d)) \o d

\* int(bits, 2)
RECURSIVE IntBin(_)
IntBin(bits) ==
    IF bits = <<>> THEN 0
    ELSE 2 * IntBin(SubSeq(bits, 1, Len(bits) - 1)) + bits[Len(bits)]

\* math.ceil(math.log2(n)) for n >= 1
RECURSIVE CeilLog2(_)
CeilLog2(n) == IF n <= 1 THEN 0 ELSE 1 + CeilLog2((n + 1) \div 2)

\* ------------------------------------------------------------------ dict
DictHas(d, key) == \E j \in 1..Len(d) : d[j].k = key

DictGet(d, key) == d[CHOOSE j \in 1..Len(d) : d[j].k = key].v

\* d[key] = val: an existing key keeps its place, a new key goes last
DictSet(d, key, val) ==
    IF DictHas(d, key)
    THEN [j \in 1..Len(d) |-> IF d[j].k = key THEN [k |-> key, v |-> val] ELSE d[j]]
    ELSE Append(d, [k |-> key, v |-> val])

\* the p-th smallest member of a set of indices
NthOf(S, p) == CHOOSE j \in S : Cardinality({i \in S : i <= j}) = p

\* {k: v for ...} over a sequence of [k, v] items: a key keeps the place of
\* its first item and the value of its last one
DictOf(items) ==
    LET first == {j \in 1..Len(items) :
                     \A i \in 1..(j - 1) : items[i].k # items[j].k}
        last(key) == CHOOSE j \in 1..Len(items) :
                     /\ items[j].k = key
                     /\ \A i \in (j + 1)..Len(items) : items[i].k # key
    IN  [p \in 1..Cardinality(first) |->
            LET key == items[NthOf(first, p)].k
            IN  [k |-> key, v |-> items[last(key)].v]]

\* ------------------------------------------------------------ __init__
\* the body of "for char in chars" for an entry that is kept:
\* 'space' -> ' ', then lower
NormalizeEntry(stripped) ==
    Lower(IF stripped = SpaceToken THEN <<SpaceChar>> ELSE stripped)

\* self.char_set after the loop over chars: entries empty after strip() are
\* skipped, the others appended in order
BuildCharSet(entries) ==
    LET kept == {j \in 1..Len(entries) : Strip(entries[j]) # <<>>}
    IN  [p \in 1..Cardinality(kept) |->
            NormalizeEntry(Strip(entries[NthOf(kept, p)]))]

\* variant: the width for the symbols alone, no code left for the EOS marker
BitsPerCharNoEos(n) == CeilLog2(n)

\* self.bits_per_char
BitsPerChar(n) == CeilLog2(n + 1)

\* variant: a symbol keeps the code of its first occurrence (setdefault)
CharToCodeFirstWins(cs, bits) ==
    LET first(p) == CHOOSE q \in 1..p : cs[q] = cs[p] /\ \A h \in 1..(q - 1) : cs[h] # cs[p]
    IN  DictOf([j \in 1..Len(cs) |->
                   [k |-> cs[j], v |-> FormatBin(first(j) - 1, bits)]])

\* {char: format(i, f'0{bits}b') for i, char in enumerate(char_set)}
CharToCode(cs, bits) ==
    DictOf([j \in 1..Len(cs) |-> [k |-> cs[j], v |-> FormatBin(j - 1, bits)]])

\* {v: k for k, v in char_to_code.items()}
Invert(d) == DictOf([j \in 1..Len(d) |-> [k |-> d[j].v, v |-> d[j].k]])

\* variant: the EOS marker takes the last symbol's code
EosCodeLastSymbol(n, bits) == FormatBin(n - 1, bits)

\* format(self.num_chars, f'0{bits}b')
EosCode(n, bits) == FormatBin(n, bits)

\* variant: the reverse map filled from the positions of the symbol list
\* instead of from char_to_code
CodeToCharByPosition(c2c, eos) ==
    LET cs == BuildCharSet(chars)
    IN  DictSet(DictOf([j \in 1..Len(cs) |->
                           [k |-> FormatBin(j - 1, Len(eos)), v |-> cs[j]]]),
                eos, None)

\* code_to_char with the EOS marker added
CodeToChar(c2c, eos) == DictSet(Invert(c2c), eos, None)

\* -------------------------------------------------------------- compress
\* the positions of text whose character is not a key of char_to_code
Unsupported(c2c, text) == {j \in 1..Len(text) : ~DictHas(c2c, <<text[j]>>)}

\* variant: the last unsupported character
LastUnsupported(c2c, text) ==
    LET bad == {j \in 1..Len(text) : ~DictHas(c2c, <<text[j]>>)}
    IN  text[CHOOSE j \in bad : \A h \in bad : h <= j]

\* the character the validation loop raises on: the first unsupported one
FirstUnsupported(c2c, text) ==
    LET bad == Unsupported(c2c, text)
    IN  text[CHOOSE j \in bad : \A i \in bad : j <= i]

\* "for char in text: bitstream += self.char_to_code[char]"
RECURSIVE EncodeText(_, _)
EncodeText(c2c, text) ==
    IF text = <<>> THEN <<>>
    ELSE EncodeText(c2c, SubSeq(text, 1, Len(text) - 1))
            \o DictGet(c2c, <<text[Len(text)]>>)

\* variant: the EOS marker is not appended
LogicalBitsNoEos(c2c, eos, text) == EncodeText(c2c, text)

\* the logical bitstream: the codes, then the EOS marker
LogicalBits(c2c, eos, text) == EncodeText(c2c, text) \o eos

\* variant: the short last byte is zero-filled on the left (zfill)
PadByteLeft(byte_str) ==
    IF Len(byte_str) < ByteBits
    THEN Zeros(ByteBits - Len(byte_str)) \o byte_str
    ELSE byte_str

\* byte_str += '0' * (8 - len(byte_str)) when len(byte_str) < 8
PadByte(byte_str) ==
    IF Len(byte_str) < ByteBits
    THEN byte_str \o Zeros(ByteBits - Len(byte_str))
    ELSE byte_str

\* variant: only whole bytes are written, a short last byte is dropped
PackWholeBytes(bits) ==
    [b \in 1..(Len(bits) \div ByteBits) |->
        IntBin(Slice(bits, ByteBits * (b - 1), ByteBits * b))]

\* "for i in range(0, len(bitstream), 8): compressed.append(int(byte_str, 2))"
Pack(bits) ==
    [b \in 1..((Len(bits) + ByteBits - 1) \div ByteBits) |->
        IntBin(PadByte(Slice(bits, ByteBits * (b - 1), ByteBits * b)))]

\* the second value compress returns: the bitstream size without the EOS
BitCount(bits, width) == Len(bits) - width

\* ------------------------------------------------------------ decompress
\* "for byte in compressed: bitstream += format(byte, '08b')"
RECURSIVE Unpack(_)
Unpack(bytes) ==
    IF bytes = <<>> THEN <<>>
    ELSE Unpack(SubSeq(bytes, 1, Len(bytes) - 1))
            \o FormatBin(bytes[Len(bytes)], ByteBits)

\* code = bitstream[i:i + self.bits_per_char]
Window(bits, at, width) == Slice(bits, at, at + width)

\* "code in self.code_to_char and self.code_to_char[code] is not None"
IsSymbolCode(c2s, code) == DictHas(c2s, code) /\ DictGet(c2s, code) # None

\* variant: i += 1, the windows overlap
AdvanceOneBit(at, width) == at + 1

\* i += self.bits_per_char
Advance(at, width) == at + width

\* ---------------------------------------------------------------- inputs
\* raw entries: 'a', ' A ' (a again after strip and lower), '' (skipped),
\* 'space' (the space character)
RawPool == {<<97>>, <<32, 65, 32>>, <<>>, SpaceToken}

SmallTables == UNION {[1..n -> RawPool] : n \in 0..MaxEntries}

\* 'a', 'b', 'c', ...: n pairwise distinct entries
BigTable(n) == [j \in 1..n |-> <<96 + j>>]

BigTables == {BigTable(n) : n \in 0..MaxBig}

RawTables == SmallTables \cup BigTables

\* texts: 'a', 'A' (lowers to 'a'), 'b', ' '
TextChars == {97, 65, 98, SpaceChar}

ShortTexts == UNION {[1..n -> TextChars] : n \in 0..MaxLen}

\* the periods of the patterned texts
LongSpans == {1, 2, 5, 26}

\* n characters running through the first m letters in steps of three
LongText(n, m) == [j \in 1..n |-> 97 + ((3 * j) % m)]

LongTexts == {LongText(n, m) : n \in 1..MaxLong, m \in LongSpans}

Texts == ShortTexts \cup LongTexts

\* byte buffers that no compress call need have produced
ByteVals == {0, 28, 65, 255}

Buffers == UNION {[1..n -> ByteVals] : n \in 0..MaxBytes}

VARIABLES
    char_set, num_chars, bits_per_char, char_to_code, code_to_char, eos_code,
    pc,             \* "new", "invalid", "ready", "encoded", "unsupported", "decode"
    err,            \* <<>> or <<the ValueError raised>>
    ctext,          \* compress: the text passed in
    cbitstream,     \* compress: bitstream
    cret,           \* compress: <<>> or <<the pair returned>>
    compressed,     \* decompress: the bytes passed in
    bitstream,      \* decompress: bitstream
    i,              \* decompress: i
    text,           \* decompress: text
    dstate,         \* decompress: "IDLE", "SCANNING", "DONE", "ERROR"
    steps,          \* decompress: evaluations of the while loop so far
    dret            \* decompress: <<>> or <<the text returned>>

vars == <<chars, char_set, num_chars, bits_per_char, char_to_code, code_to_char,
          eos_code, pc, err, ctext, cbitstream, cret, compressed, bitstream, i,
          text, dstate, steps, dret>>

table == <<char_set, num_chars, bits_per_char, char_to_code, code_to_char, eos_code>>

cvars == <<ctext, cbitstream, cret>>

dvars == <<compressed, bitstream, i, text, dstate, steps, dret>>

ValueError(what, arg) == <<[what |-> what, arg |-> arg]>>

Init ==
    /\ chars \in RawTables
    /\ char_set = <<>>
    /\ num_chars = 0
    /\ bits_per_char = 0
    /\ char_to_code = <<>>
    /\ code_to_char = <<>>
    /\ eos_code = <<>>
    /\ pc = "new"
    /\ err = <<>>
    /\ ctext = <<>>
    /\ cbitstream = <<>>
    /\ cret = <<>>
    /\ compressed = <<>>
    /\ bitstream = <<>>
    /\ i = 0
    /\ text = <<>>
    /\ dstate = "IDLE"
    /\ steps = 0
    /\ dret = <<>>

\* TextCompressor.__init__ from the loop over chars on
Construct ==
    /\ pc = "new"
    /\ LET cs   == BuildCharSet(chars)
           n    == Len(cs)
           bits == BitsPerChar(n)
           c2c  == CharToCode(cs, bits)
           eos  == EosCode(n, bits)
       IN  /\ char_set' = cs
           /\ IF cs = <<>>
              THEN /\ pc' = "invalid"
                   /\ err' = ValueError("Table file is empty or invalid", <<>>)
                   /\ UNCHANGED <<num_chars, bits_per_char, char_to_code,
                                  code_to_char, eos_code>>
              ELSE /\ num_chars' = n
                   /\ bits_per_char' = bits
                   /\ IF bits > MaxBits
                      THEN /\ pc' = "invalid"
                           /\ err' = ValueError("max 5 bits supported", <<n, bits>>)
                           /\ UNCHANGED <<char_to_code, code_to_char, eos_code>>
                      ELSE /\ pc' = "ready"
                           /\ err' = <<>>
                           /\ char_to_code' = c2c
                           /\ eos_code' = eos
                           /\ code_to_char' = CodeToChar(c2c, eos)
    /\ UNCHANGED <<chars, cvars, dvars>>

\* TextCompressor.compress(t)
Compress(t) ==
    /\ pc = "ready"
    /\ ctext' = t
    /\ LET lowered == Lower(t)
           bits    == LogicalBits(char_to_code, eos_code, lowered)
       IN  IF Unsupported(char_to_code, lowered) # {}
           THEN /\ pc' = "unsupported"
                /\ err' = ValueError("Unsupported character",
                                     <<FirstUnsupported(char_to_code, lowered)>>)
                /\ UNCHANGED <<cbitstream, cret>>
           ELSE /\ pc' = "encoded"
                /\ cbitstream' = bits
                /\ cret' = <<[bytes |-> Pack(bits),
                              bits  |-> BitCount(bits, bits_per_char)]>>
                /\ UNCHANGED err
    /\ UNCHANGED <<chars, table, dvars>>

\* TextCompressor.decompress(b) up to the while loop
DecompressBegin(b) ==
    /\ compressed' = b
    /\ bitstream' = Unpack(b)
    /\ text' = <<>>
    /\ i' = 0
    /\ dstate' = "SCANNING"
    /\ steps' = 0
    /\ dret' = <<>>
    /\ pc' = "decode"
    /\ UNCHANGED <<chars, table, err, cvars>>

\* decompress is handed bytes that come from elsewhere
DecompressBytes ==
    /\ pc = "ready"
    /\ \E b \in Buffers : DecompressBegin(b)

\* decompress is handed what compress returned, followed by k zero bytes
DecompressPadded ==
    /\ pc = "encoded"
    /\ \E k \in 0..MaxPad : DecompressBegin(cret[1].bytes \o Zeros(k))

\* one evaluation of "while i < len(bitstream)" and of the loop body; leaving
\* the loop returns text
DecompressStep ==
    /\ pc = "decode"
    /\ dstate = "SCANNING"
    /\ steps' = steps + 1
    /\ LET code == Window(bitstream, i, bits_per_char)
       IN  IF \/ ~(i < Len(bitstream))
              \/ Len(code) < bits_per_char
              \/ code = eos_code
           THEN /\ dstate' = "DONE"
                /\ dret' = <<text>>
                /\ UNCHANGED <<text, i, err>>
           ELSE IF IsSymbolCode(code_to_char, code)
           THEN /\ text' = text \o DictGet(code_to_char, code)
                /\ i' = Advance(i, bits_per_char)
                /\ UNCHANGED <<dstate, dret, err>>
           ELSE /\ dstate' = "ERROR"
                /\ err' = ValueError("Invalid code", code)
                /\ UNCHANGED <<text, i, dret>>
    /\ UNCHANGED <<chars, table, pc, cvars, compressed, bitstream>>

Next ==
    \/ Construct
    \/ \E t \in Texts : Compress(t)
    \/ DecompressBytes
    \/ DecompressPadded
    \/ DecompressStep

Spec == Init /\ [][Next]_vars

\* decompress runs to its return: nothing suspends the while loop
FairSpec == Spec /\ WF_vars(DecompressStep)

\* ================================================================ claims
Built == pc \notin {"new", "invalid"}

Keys == {char_to_code[j].k : j \in 1..Len(char_to_code)}

SymbolCodes == {char_to_code[j].v : j \in 1..Len(char_to_code)}

\* the text compress works on
Lowered == Lower(ctext)

Encodable == \A j \in 1..Len(Lowered) : <<Lowered[j]>> \in Keys

Terminal == pc = "decode" /\ dstate \in {"DONE", "ERROR"}

\* this decompress call was handed what compress returned, plus k zero bytes
FedBy(k) == pc = "decode" /\ cret # <<>> /\ compressed = cret[1].bytes \o Zeros(k)

\* the window the decoder is looking at
Here == SubSeq(bitstream, i + 1, Min(i + bits_per_char, Len(bitstream)))

AtFullWindow ==
    /\ pc = "decode"
    /\ dstate = "SCANNING"
    /\ i + bits_per_char <= Len(bitstream)

\* bit p (from 0) of a byte sequence read most significant bit first
BitAt(bytes, p) ==
    (bytes[(p \div ByteBits) + 1] \div (2 ^ (ByteBits - 1 - (p % ByteBits)))) % 2

\* C1: round trip.  A text whose lowered characters are all keys is never
\* rejected by compress, and decompress of the bytes compress returned ends
\* without error and returns the lowered text.
C1_RoundTrip ==
    /\ pc = "unsupported" => ~Encodable
    /\ (FedBy(0) /\ Terminal) =>
          /\ Encodable
          /\ dstate = "DONE"
          /\ dret = <<Lowered>>

C1_Witness ==
    /\ FedBy(0)
    /\ dstate = "DONE"
    /\ Len(ctext) >= 2
    /\ ctext # Lowered
    /\ dret = <<Lowered>>

\* C2: encode is all or nothing.  When some lowered character is no key,
\* compress raises the unsupported-character error naming the first such
\* character and returns neither bytes nor a bit count, wherever the
\* character sits; otherwise it returns.
C2_AllOrNothing ==
    pc \in {"encoded", "unsupported"} =>
        IF Encodable
        THEN pc = "encoded" /\ cret # <<>> /\ err = <<>>
        ELSE /\ pc = "unsupported"
             /\ cret = <<>>
             /\ cbitstream = <<>>
             /\ \E j \in 1..Len(Lowered) :
                   /\ <<Lowered[j]>> \notin Keys
                   /\ \A h \in 1..(j - 1) : <<Lowered[h]>> \in Keys
                   /\ err = ValueError("Unsupported character", <<Lowered[j]>>)

C2_Witness ==
    /\ pc = "unsupported"
    /\ Len(ctext) = 3
    /\ <<Lowered[1]>> \in Keys
    /\ <<Lowered[2]>> \notin Keys
    /\ <<Lowered[3]>> \notin Keys
    /\ Lowered[2] # Lowered[3]

\* C3: decode rejection.  A complete window that is neither a symbol's code
\* nor the EOS code makes decompress raise the invalid-code error and return
\* no text, also after earlier windows decoded to symbols; a buffer whose
\* leading window is such a code always ends in the error.
C3_RejectStep ==
    (AtFullWindow /\ Here \notin SymbolCodes /\ Here # eos_code) =>
        /\ dstate' = "ERROR"
        /\ dret' = <<>>
        /\ err' = ValueError("Invalid code", Here)

C3_LeadingUnassigned ==
    LET lead == SubSeq(bitstream, 1, bits_per_char)
    IN  (Terminal /\ bits_per_char <= Len(bitstream)
           /\ lead \notin SymbolCodes /\ lead # eos_code) =>
            (dstate = "ERROR" /\ dret = <<>> /\ text = <<>>)

C3_DecodeRejection ==
    /\ [](C3_LeadingUnassigned /\ (dstate = "ERROR" => dret = <<>>))
    /\ [][DecompressStep => C3_RejectStep]_vars

C3_Witness ==
    /\ pc = "decode"
    /\ dstate = "ERROR"
    /\ Len(text) >= 2
    /\ err = ValueError("Invalid code", Here)

\* C4: padding tolerance.  Whatever number k of zero bytes is appended to
\* the bytes compress returned, decompress ends without error and returns
\* the lowered text, for every code width and also when the EOS code ends
\* exactly on a byte boundary.
C4_PaddingTolerance ==
    \A k \in 0..MaxPad :
        (FedBy(k) /\ Terminal) =>
            (dstate = "DONE" /\ dret = <<Lowered>> /\ err = <<>>)

C4_Witness ==
    /\ \E k \in 1..MaxPad : FedBy(k)
    /\ dstate = "DONE"
    /\ Len(cbitstream) % ByteBits = 0
    /\ bits_per_char = MaxBits
    /\ dret = <<Lowered>>

\* C5: EOS exclusivity.  In a built table the EOS code is no symbol's code,
\* code_to_char is exactly char_to_code inverted plus the EOS code mapped to
\* None, and decompress appends nothing for a window equal to the EOS code.
C5_TableInv ==
    Built =>
        /\ eos_code \notin SymbolCodes
        /\ {<<code_to_char[j].k, code_to_char[j].v>> : j \in 1..Len(code_to_char)}
             = {<<char_to_code[j].v, char_to_code[j].k>> : j \in 1..Len(char_to_code)}
               \cup {<<eos_code, None>>}
        /\ Cardinality({code_to_char[j].k : j \in 1..Len(code_to_char)})
             = Len(code_to_char)
        /\ Len(code_to_char) = Len(char_to_code) + 1

C5_EosStep ==
    (AtFullWindow /\ Here = eos_code) =>
        (text' = text /\ dstate' = "DONE" /\ dret' = <<text>>)

C5_EosExclusive == []C5_TableInv /\ [][DecompressStep => C5_EosStep]_vars

C5_Witness ==
    /\ pc = "decode"
    /\ dstate = "DONE"
    /\ Len(char_to_code) < Len(char_set)
    /\ i + bits_per_char <= Len(bitstream)
    /\ Here = eos_code
    /\ text # <<>>

\* C6: width and size boundary.  With N the length of the normalized list,
\* construction succeeds exactly when 1 <= N <= 31; then the width w is the
\* least with 2^w >= N + 1 and lies in 1..5 (N = 1: 1, 15: 4, 26: 5, 31: 5).
C6_WidthBoundary ==
    pc # "new" =>
        LET N == Len(char_set)
            w == bits_per_char
        IN  /\ Built <=> (1 <= N /\ N <= 31)
            /\ ~Built <=> (N = 0 \/ N >= 32)
            /\ ~Built => err # <<>>
            /\ Built =>
                  /\ 1 <= w /\ w <= 5
                  /\ 2 ^ w >= N + 1
                  /\ 2 ^ (w - 1) < N + 1
                  /\ N = 1 => w = 1
                  /\ N = 15 => w = 4
                  /\ N = 26 => w = 5
                  /\ N = 31 => w = 5

C6_Witness == pc = "ready" /\ Len(char_set) = 31 /\ bits_per_char = 5

\* C7 ------------------------------------------------------ the a, b, c table
AbcTable == char_set = <<<<97>>, <<98>>, <<99>>>>

AbcCodes ==
    /\ bits_per_char = 2
    /\ char_to_code = << [k |-> <<97>>, v |-> <<0, 0>>],
                         [k |-> <<98>>, v |-> <<0, 1>>],
                         [k |-> <<99>>, v |-> <<1, 0>>] >>
    /\ eos_code = <<1, 1>>

AbEncoded == AbcTable /\ pc \in {"encoded", "decode"} /\ ctext = <<97, 98>>

AbPacked ==
    /\ cbitstream = <<0, 0, 0, 1, 1, 1>>
    /\ cret # <<>>
    /\ cret[1].bytes = <<28>>

AbDecoded ==
    (AbcTable /\ Terminal /\ compressed = <<28>>) =>
        (dstate = "DONE" /\ dret = << <<97, 98>> >>)

\* C7 as stated: the logical bits of "ab" are 8 bits, so nothing is padded.
C7_AsStated ==
    /\ (AbcTable /\ Built) => AbcCodes
    /\ AbEncoded =>
          /\ AbPacked
          /\ Len(cbitstream) = 8
          /\ ByteBits * Len(cret[1].bytes) - Len(cbitstream) = 0
    /\ AbDecoded

\* C7 amended: with the table a, b, c (width 2, a=00, b=01, c=10, EOS=11)
\* "ab" gives the logical bits 00 01 11, which are 6 bits, so 2 zero bits
\* are padded; the packed output is the one byte 0b00011100 and decoding
\* that byte returns "ab".
C7_Scenario ==
    /\ (AbcTable /\ Built) => AbcCodes
    /\ AbEncoded =>
          /\ AbPacked
          /\ Len(cbitstream) = 6
          /\ ByteBits * Len(cret[1].bytes) - Len(cbitstream) = 2
    /\ AbDecoded

C7_Witness == AbEncoded /\ FedBy(0) /\ dstate = "DONE" /\ dret = << <<97, 98>> >>

\* C8: packing format.  For an encodable text of n characters and width w,
\* compress returns ceil((n+1)*w/8) bytes, never none; read most significant
\* bit first, the first n*w bits are the codes in input order, the next w
\* bits the EOS code, and every remaining bit is 0.
C8_PackingFormat ==
    (pc \in {"encoded", "decode"} /\ cret # <<>>) =>
        LET bytes == cret[1].bytes
            n     == Len(Lowered)
            w     == bits_per_char
        IN  /\ Len(bytes) = ((n + 1) * w + ByteBits - 1) \div ByteBits
            /\ Len(bytes) >= 1
            /\ \A b \in 1..Len(bytes) : bytes[b] \in 0..255
            /\ \A j \in 1..n : \A t \in 1..w :
                  BitAt(bytes, (j - 1) * w + t - 1)
                     = DictGet(char_to_code, <<Lowered[j]>>)[t]
            /\ \A t \in 1..w : BitAt(bytes, n * w + t - 1) = eos_code[t]
            /\ \A p \in ((n + 1) * w)..(ByteBits * Len(bytes) - 1) :
                  BitAt(bytes, p) = 0
            /\ cret[1].bits = n * w

C8_Witness ==
    /\ pc = "encoded"
    /\ bits_per_char = 3
    /\ Len(cret[1].bytes) = 2
    /\ Len(cbitstream) % ByteBits # 0
    /\ \E j \in 1..Len(cbitstream) : j <= ByteBits /\ cbitstream[j] = 1

\* C9: decode state machine.  On every buffer decompress looks at
\* consecutive windows of the code width from offset 0 and ends in DONE or
\* ERROR after at most floor(8 * len(bytes) / width) + 1 steps; it ends in
\* DONE at an EOS window or when fewer bits than the width remain, whatever
\* their value; after DONE or ERROR nothing more is emitted.
C9_Bounded ==
    pc = "decode" =>
        /\ steps <= ((ByteBits * Len(compressed)) \div bits_per_char) + 1
        /\ dstate \in {"SCANNING", "DONE", "ERROR"}
        /\ dstate = "SCANNING" => i = bits_per_char * steps
        /\ dstate = "SCANNING" => ENABLED DecompressStep

C9_Step ==
    /\ (dstate = "SCANNING" /\ dstate' = "DONE") <=>
          (pc = "decode" /\ dstate = "SCANNING"
              /\ (Len(bitstream) - i < bits_per_char \/ Here = eos_code))
    /\ (dstate = "SCANNING" /\ dstate' = "DONE") => dret' = <<text>>

C9_TerminalStays ==
    Terminal => (dstate' = dstate /\ text' = text /\ dret' = dret /\ steps' = steps)

C9_StateMachine ==
    /\ []C9_Bounded
    /\ [][DecompressStep => C9_Step]_vars
    /\ [][C9_TerminalStays]_vars
    /\ (pc = "decode") ~> Terminal

C9_Witness ==
    /\ pc = "decode"
    /\ dstate = "DONE"
    /\ text # <<>>
    /\ i < Len(bitstream)
    /\ Len(bitstream) - i < bits_per_char
    /\ \E j \in (i + 1)..Len(bitstream) : bitstream[j] = 1

\* C10 --------------------------------------------------- code assignment
\* every code has the table's width
CodesHaveWidth ==
    /\ Len(eos_code) = bits_per_char
    /\ \A c \in SymbolCodes : Len(c) = bits_per_char

CodeValues == {IntBin(c) : c \in SymbolCodes}

Distinct == \A p, q \in 1..Len(char_set) : char_set[p] = char_set[q] => p = q

\* C10 as stated: with or without duplicates the i-th entry (from 0) has
\* code value i, and eos_code is len(symbols), the least unused code value.
C10_AsStated ==
    Built =>
        /\ CodesHaveWidth
        /\ \A p \in 1..Len(char_set) :
              IntBin(DictGet(char_to_code, char_set[p])) = p - 1
        /\ IntBin(eos_code) = Len(char_set)
        /\ \A v \in 0..(Len(char_set) - 1) : v \in CodeValues

\* C10 amended: every symbol has the code value of the position (from 0) of
\* its last occurrence in the symbol list; eos_code is len(symbols), which
\* is above every symbol's code value; when the list has no duplicates the
\* i-th entry has code value i and eos_code is the least unused code value.
C10_Assignment ==
    Built =>
        /\ CodesHaveWidth
        /\ Keys = {char_set[p] : p \in 1..Len(char_set)}
        /\ \A p \in 1..Len(char_set) :
              (\A q \in (p + 1)..Len(char_set) : char_set[q] # char_set[p]) =>
                  IntBin(DictGet(char_to_code, char_set[p])) = p - 1
        /\ IntBin(eos_code) = Len(char_set)
        /\ \A v \in CodeValues : v < IntBin(eos_code)
        /\ Distinct => CodeValues = 0..(Len(char_set) - 1)

C10_Witness ==
    /\ pc = "ready"
    /\ Len(char_set) = 3
    /\ char_set[1] = char_set[3]
    /\ char_set[1] # char_set[2]
    /\ IntBin(DictGet(char_to_code, char_set[1])) = 2
====
